---- MODULE Spec2Model ----
(***************************************************************************)
(* Model of archipack_2d.py: the 2d Line / Circle / Arc kernel and its     *)
(* offset-and-rejoin algorithm (make_offset).                               *)
(*                                                                         *)
(* Numbers.  The program computes with floats; the model computes with     *)
(* exact rationals <<n, d>> (d > 0, lowest terms).  A value the rationals  *)
(* cannot hold (the square root of a non-square) is Irr == <<0, 0>>; it    *)
(* taints everything computed from it, and a call whose result is tainted  *)
(* is outside the model (its action is not enabled).                       *)
(*                                                                         *)
(* Angles.  A real angle alpha is held exactly as [c, s, k] where          *)
(* (c, s) = (cos alpha, sin alpha) and alpha = Arg(c, s) + 2*pi*k with     *)
(* Arg in (-pi, pi].  Sums, negation, the sign and the atan2 of a vector   *)
(* of rational length are exact in this form.                              *)
(*                                                                         *)
(* Style.  A local of the program that is read more than once is a         *)
(* parameter of the operator that continues the computation (F_1, F_2,     *)
(* ...), so every value is written down once.                              *)
(***************************************************************************)
EXTENDS Integers, Sequences, FiniteSets, TLC

(* ------------------------------ bounds -------------------------------- *)
\* longest sequence of endpoint assignments on one segment
MaxSets == 2
\* longest chain of segments a join pass walks
MaxSegs == 3

(* ----------------------------- rationals ------------------------------ *)
Abs(n) == IF n < 0 THEN -n ELSE n

RECURSIVE GCD(_, _)
GCD(a, b) == IF b = 0 THEN a ELSE GCD(b, a % b)

Irr == <<0, 0>>

R_2(n, d, g) ==
    IF d < 0 THEN <<(-n) \div g, (-d) \div g>> ELSE <<n \div g, d \div g>>

R(n, d) == IF d = 0 THEN Irr ELSE R_2(n, d, GCD(Abs(n), Abs(d)))

Q(n) == <<n, 1>>

RAdd(x, y) == R(x[1] * y[2] + y[1] * x[2], x[2] * y[2])
RNeg(x) == <<-x[1], x[2]>>
RSub(x, y) == R(x[1] * y[2] - y[1] * x[2], x[2] * y[2])
RMul(x, y) == R(x[1] * y[1], x[2] * y[2])
\* callers test the divisor first: a zero divisor is the program's
\* ZeroDivisionError, never a value
RDiv(x, y) == R(x[1] * y[2], x[2] * y[1])
RLt(x, y) == x[1] * y[2] < y[1] * x[2]
RLe(x, y) == x[1] * y[2] <= y[1] * x[2]
RAbs(x) == <<Abs(x[1]), x[2]>>
RExact(x) == x[2] # 0

\* the integer square root, by bisection (46340 is the largest root of a
\* 32-bit square)
RECURSIVE ISqrtIn(_, _, _)
ISqrtStep(n, lo, hi, mid) ==
    IF mid * mid <= n THEN ISqrtIn(n, mid, hi) ELSE ISqrtIn(n, lo, mid - 1)
ISqrtIn(n, lo, hi) ==
    IF lo >= hi THEN lo ELSE ISqrtStep(n, lo, hi, (lo + hi + 1) \div 2)
ISqrt(n) == IF n <= 0 THEN 0 ELSE ISqrtIn(n, 0, IF n < 46340 THEN n ELSE 46340)

RSqrt_2(x, a, b) ==
    IF RExact(x) /\ a * a = x[1] /\ b * b = x[2] THEN <<a, b>> ELSE Irr

\* math.sqrt on the exact domain (callers rule out a negative operand,
\* the program's ValueError)
RSqrt(x) == RSqrt_2(x, ISqrt(x[1]), ISqrt(x[2]))

(* ------------------------- mathutils.Vector --------------------------- *)
Vec(x, y) == <<Q(x), Q(y)>>
VAdd(u, v) == <<RAdd(u[1], v[1]), RAdd(u[2], v[2])>>
VSub(u, v) == <<RSub(u[1], v[1]), RSub(u[2], v[2])>>
VScale(u, f) == <<RMul(u[1], f), RMul(u[2], f)>>
Dot(u, v) == RAdd(RMul(u[1], v[1]), RMul(u[2], v[2]))
\* u.x * v.y - u.y * v.x
Cross(u, v) == RSub(RMul(u[1], v[2]), RMul(u[2], v[1]))
VLength(u) == RSqrt(Dot(u, u))
Normalized_2(u, len) ==
    IF len = Q(0) THEN u ELSE <<RDiv(u[1], len), RDiv(u[2], len)>>
\* Vector.normalized(): the zero vector stays the zero vector
Normalized(u) == Normalized_2(u, VLength(u))
VExact(u) == RExact(u[1]) /\ RExact(u[2])

(* ------------------------------ angles -------------------------------- *)
IrrAngle == [c |-> Irr, s |-> Irr, k |-> 0]
AExact(a) == RExact(a.c) /\ RExact(a.s)

\* q quarter turns: q * pi / 2
Quarter(q) ==
    [c |-> Q(CASE q % 4 = 0 -> 1 [] q % 4 = 2 -> -1 [] OTHER -> 0),
     s |-> Q(CASE q % 4 = 1 -> 1 [] q % 4 = 3 -> -1 [] OTHER -> 0),
     k |-> (q + 1) \div 4]

pi == Quarter(2)

\* sign of the principal value Arg(c, s) in (-pi, pi]
ArgSign(a) ==
    IF RLt(Q(0), a.s) \/ (a.s = Q(0) /\ RLt(a.c, Q(0))) THEN 1
    ELSE IF RLt(a.s, Q(0)) THEN -1 ELSE 0

\* sign of the angle itself
ASign(a) == IF a.k > 0 THEN 1 ELSE IF a.k < 0 THEN -1 ELSE ArgSign(a)

ACarry(sa, sb, sp) ==
    IF sa = 1 /\ sb = 1 /\ sp # 1 THEN 1
    ELSE IF sa = -1 /\ sb = -1 /\ sp = 1 THEN -1 ELSE 0

AAdd_2(a, b, c, s) ==
    IF ~(AExact(a) /\ AExact(b)) THEN IrrAngle
    ELSE [c |-> c, s |-> s,
          k |-> a.k + b.k
                + ACarry(ArgSign(a), ArgSign(b),
                         ArgSign([c |-> c, s |-> s, k |-> 0]))]

\* a + b
AAdd(a, b) ==
    AAdd_2(a, b, RSub(RMul(a.c, b.c), RMul(a.s, b.s)),
           RAdd(RMul(a.s, b.c), RMul(a.c, b.s)))

\* -a
ANeg(a) ==
    IF a.s = Q(0) /\ RLt(a.c, Q(0))
    THEN [c |-> a.c, s |-> a.s, k |-> -a.k - 1]
    ELSE [c |-> a.c, s |-> RNeg(a.s), k |-> -a.k]

ASub(a, b) == AAdd(a, ANeg(b))

cos(a) == a.c
sin(a) == a.s

atan2_2(y, x, len) ==
    IF ~RExact(len) THEN IrrAngle
    ELSE IF len = Q(0) THEN Quarter(0)
    ELSE [c |-> RDiv(x, len), s |-> RDiv(y, len), k |-> 0]

\* math.atan2(y, x), exact when the vector (x, y) has a rational length
atan2(y, x) == atan2_2(y, x, VLength(<<x, y>>))

\* t * a for the two parameters the endpoints use
ATimes(t, a) == IF t = 0 THEN Quarter(0) ELSE a

(* ------------------------------- Line --------------------------------- *)
None == [kind |-> "None"]

\* Line.__init__(p, v)
Line(p, v) == [kind |-> "Line", p |-> p, v |-> v]

\* Line.__init__(p0=..., p1=...)
LineFromPoints(p0, p1) == Line(p0, VSub(p1, p0))

Line_p0(l) == l.p
Line_p1(l) == VAdd(l.p, l.v)

\* a p0 setter that forgets to recompute v
Line_set_p0_keeps_v(l, p0) == [l EXCEPT !.p = p0]

\* @p0.setter
Line_set_p0(l, p0) == [l EXCEPT !.p = p0, !.v = VSub(Line_p1(l), p0)]

\* a p1 setter that keeps v and moves the whole line
Line_set_p1_moves_p0(l, p1) == Line(VSub(p1, l.v), l.v)

\* @p1.setter
Line_set_p1(l, p1) == [l EXCEPT !.v = VSub(p1, l.p)]

Line_length(l) == VLength(l.v)

Line_angle_normal(l) == atan2(RNeg(l.v[1]), l.v[2])

\* a perpendicular on the left-hand side
cross_z_left(l) == <<RNeg(l.v[2]), l.v[1]>>

cross_z(l) == <<l.v[2], RNeg(l.v[1])>>

signed_angle(u, v) == atan2(Cross(u, v), Dot(u, v))

Line_lerp(l, t) == VAdd(l.p, VScale(l.v, t))

Line_point_sur_segment_3(d, t) ==
    [exc |-> "none", res |-> RLt(Q(0), t) /\ RLt(t, Q(1)), d |-> d, t |-> t]

Line_point_sur_segment_2(l, dp, dl) ==
    IF dl = Q(0)
    THEN [exc |-> "ZeroDivisionError", res |-> FALSE, d |-> Q(0), t |-> Q(0)]
    ELSE Line_point_sur_segment_3(RDiv(Cross(l.v, dp), dl),
                                  RDiv(Dot(l.v, dp), RMul(dl, dl)))

\* Line.point_sur_segment: [exc, res, d, t]
Line_point_sur_segment(l, pt) ==
    Line_point_sur_segment_2(l, VSub(pt, l.p), Line_length(l))

\* Line.offset
Line_offset(l, offset) ==
    Line(VAdd(l.p, VScale(Normalized(cross_z(l)), offset)), l.v)

(* --------------------------- Circle and Arc --------------------------- *)
\* Circle.__init__
Circle(c, radius) ==
    [kind |-> "Circle", c |-> c, r |-> radius, r2 |-> RMul(radius, radius)]

\* Arc.__init__
Arc(c, radius, a0, da) ==
    [kind |-> "Arc", c |-> c, r |-> radius, r2 |-> RMul(radius, radius),
     a0 |-> a0, da |-> da]

ccw(a) == ASign(a.da) = 1

Arc_lerp_2(a, ang) ==
    VAdd(a.c, <<RMul(a.r, cos(ang)), RMul(a.r, sin(ang))>>)

\* Arc.lerp at the two endpoint parameters t = 0 and t = 1
Arc_lerp(a, t) == Arc_lerp_2(a, AAdd(a.a0, ATimes(t, a.da)))

Arc_p0(a) == Arc_lerp(a, 0)
Arc_p1(a) == Arc_lerp(a, 1)

\* Matrix * Vector
MatMul(m, w) ==
    <<RAdd(RMul(m[1][1], w[1]), RMul(m[1][2], w[2])),
      RAdd(RMul(m[2][1], w[1]), RMul(m[2][2], w[2]))>>

rot_scale_matrix_3(scale, ca, sa) ==
    [exc |-> "none", scale |-> scale,
     tM |-> << <<ca, sa>>, <<RNeg(sa), ca>> >>]

rot_scale_matrix_2(a, scale) ==
    rot_scale_matrix_3(scale, RMul(scale, cos(a)), RMul(scale, sin(a)))

\* Arc.rot_scale_matrix: [exc, scale, tM]
rot_scale_matrix(u, v) ==
    IF VLength(u) = Q(0)
    THEN [exc |-> "ZeroDivisionError", scale |-> Q(0), tM |-> <<>>]
    ELSE rot_scale_matrix_2(signed_angle(u, v), RDiv(VLength(v), VLength(u)))

\* the last two lines of both setters: a0 from the new start point
Arc_set_a0(a) == [a EXCEPT !.a0 = atan2(RSub(Arc_p0(a)[2], a.c[2]),
                                        RSub(Arc_p0(a)[1], a.c[1]))]

Arc_set_r(a, r) == [a EXCEPT !.r = r, !.r2 = RMul(r, r)]

\* the body of both setters once the fixed end and the matrix are known
Arc_refit(a, fixed, m) ==
    IF m.exc # "none" THEN [exc |-> m.exc, arc |-> a]
    ELSE [exc |-> "none",
          arc |-> Arc_set_a0(Arc_set_r(
                      [a EXCEPT !.c = VAdd(fixed, MatMul(m.tM, VSub(a.c, fixed)))],
                      RMul(a.r, m.scale)))]

Arc_set_p0_2(a, p0, e0, e1) ==
    Arc_refit(a, e1, rot_scale_matrix(VSub(e0, e1), VSub(p0, e1)))

\* @p0.setter of Arc: [exc, arc]
Arc_set_p0(a, p0) == Arc_set_p0_2(a, p0, Arc_p0(a), Arc_p1(a))

Arc_set_p1_2(a, p1, e0, e1) ==
    Arc_refit(a, e0, rot_scale_matrix(VSub(e1, e0), VSub(p1, e0)))

\* @p1.setter of Arc: [exc, arc]
Arc_set_p1(a, p1) == Arc_set_p1_2(a, p1, Arc_p0(a), Arc_p1(a))

\* Arc.offset
Arc_offset(a, offset) ==
    Arc(a.c, IF ASign(a.da) = 1 THEN RAdd(a.r, offset) ELSE RSub(a.r, offset),
        a.a0, a.da)

Line_tangeant_2(l, da, radius, p, n) ==
    Arc(IF ASign(da) = -1 THEN VAdd(p, VScale(n, radius))
        ELSE VSub(p, VScale(n, radius)),
        radius, Line_angle_normal(l), da)

\* Line.tangeant
Line_tangeant(l, t, da, radius) ==
    Line_tangeant_2(l, da, radius, Line_lerp(l, t), Normalized(cross_z(l)))

EpsDen == 10000000

\* x <= 0.0000001
LeEps(x) == x[1] <= x[2] \div EpsDen

Found(line, t) ==
    [exc |-> "none", found |-> TRUE, p |-> Line_lerp(line, t), t |-> t]

NotFound(line, pss) ==
    [exc |-> pss.exc, found |-> FALSE, p |-> Line_lerp(line, pss.t),
     t |-> pss.t]

Circle_intersect_3(line, t0, t1) ==
    IF RLt(RAbs(t0), RAbs(t1)) THEN Found(line, t0) ELSE Found(line, t1)

Circle_intersect_2(circ, line, A, B, d) ==
    IF LeEps(A) \/ RLt(d, Q(0))
    THEN NotFound(line, Line_point_sur_segment(line, circ.c))
    ELSE IF d = Q(0)
    THEN Found(line, RMul(RDiv(RNeg(B), Q(2)), A))
    ELSE Circle_intersect_3(line,
                            RDiv(RAdd(RNeg(B), RSqrt(d)), RMul(Q(2), A)),
                            RDiv(RSub(RNeg(B), RSqrt(d)), RMul(Q(2), A)))

Circle_intersect_1(circ, line, A, B, C) ==
    Circle_intersect_2(circ, line, A, B,
                       RSub(RMul(B, B), RMul(RMul(Q(4), A), C)))

\* Circle.intersect: [exc, found, p, t]
Circle_intersect(circ, line) ==
    Circle_intersect_1(circ, line, Dot(line.v, line.v),
                       RMul(Q(2), Dot(VSub(line.p, circ.c), line.v)),
                       RSub(Dot(VSub(line.p, circ.c), VSub(line.p, circ.c)),
                            circ.r2))

(* ----------------------------- make_offset ---------------------------- *)
SegExact(g) ==
    CASE g.kind = "Line" -> VExact(g.p) /\ VExact(g.v)
      [] g.kind = "Arc" -> VExact(g.c) /\ RExact(g.r) /\ RExact(g.r2)
                           /\ AExact(g.a0) /\ AExact(g.da)
      [] OTHER -> TRUE

Raised(e, last) == [exc |-> e, ret |-> None, last |-> last, how |-> "raised"]

Unjoined(line, last) ==
    [exc |-> "none", ret |-> line, last |-> last, how |-> "unjoined"]

\* the sweep correction both line/arc branches apply to the raw signed angle
Winding(isccw, da) ==
    IF isccw
    THEN IF ASign(da) = -1 THEN AAdd(Quarter(4), da) ELSE da
    ELSE IF ASign(da) = 1 THEN ASub(Quarter(4), da) ELSE da

\* the join point of a line and a circle: c = r2 - d * d, foot = lerp(t),
\* back: whether the point behind the foot is taken
JoinPoint(c, foot, dir, back) ==
    IF RLe(c, Q(0)) THEN foot
    ELSE IF back THEN VSub(foot, VScale(Normalized(dir), RSqrt(c)))
    ELSE VAdd(foot, VScale(Normalized(dir), RSqrt(c)))

JoinKind(c) == IF RLe(c, Q(0)) THEN "fallback" ELSE "joined"

Line_join_arc_3(line, last, c, p0) ==
    [exc |-> "none", ret |-> Line_set_p0(line, p0),
     last |-> [last EXCEPT !.da =
                  Winding(ccw(last),
                          signed_angle(VSub(Arc_p0(last), last.c),
                                       VSub(p0, last.c)))],
     how |-> JoinKind(c)]

Line_join_arc_2(line, last, pss, c) ==
    Line_join_arc_3(line, last, c,
                    JoinPoint(c, Line_lerp(line, pss.t), line.v,
                              RLt(Q(0), pss.t)))

Line_join_arc_1(line, last, pss) ==
    IF pss.exc # "none" THEN Raised(pss.exc, last)
    ELSE Line_join_arc_2(line, last, pss,
                         RSub(RMul(last.r, last.r), RMul(pss.d, pss.d)))

\* Line.make_offset, last is an Arc
Line_join_arc(line, last) ==
    Line_join_arc_1(line, last, Line_point_sur_segment(line, last.c))

\* a rejection test with the two parameters exchanged
Line_join_rejects_swapped(t, u) == RLt(Q(1), t) \/ RLt(u, Q(0))

\* the rejection test: t is the parameter on last, u the one on the new line
Line_join_rejects(t, u) == RLt(Q(1), u) \/ RLt(t, Q(0))

Line_join_line_3(line, last, p) ==
    [exc |-> "none", ret |-> Line_set_p0(line, p),
     last |-> Line_set_p1(last, p), how |-> "joined"]

Line_join_line_2(line, last, d, v) ==
    IF d = Q(0) THEN Unjoined(line, last)
    ELSE IF Line_join_rejects(RDiv(Dot(cross_z(line), v), d),
                              RDiv(Dot(cross_z(last), v), d))
    THEN Unjoined(line, last)
    ELSE Line_join_line_3(line, last,
                          Line_lerp(last, RDiv(Dot(cross_z(line), v), d)))

\* Line.make_offset, last is a Line
Line_join_line(line, last) ==
    Line_join_line_2(line, last, Dot(last.v, cross_z(line)),
                     VSub(line.p, last.p))

Line_make_offset_1(line, last) ==
    IF last.kind = "None" THEN Unjoined(line, last)
    ELSE IF last.kind = "Arc" THEN Line_join_arc(line, last)
    ELSE Line_join_line(line, last)

\* Line.make_offset: [exc, ret, last, how]
Line_make_offset(l, offset, last) ==
    Line_make_offset_1(Line_offset(l, offset), last)

Arc_join_line_3(arc, line, last, c, p0) ==
    [exc |-> "none",
     ret |-> [line EXCEPT
                !.a0 = atan2(RSub(p0[2], line.c[2]), RSub(p0[1], line.c[1])),
                !.da = Winding(ccw(arc),
                               signed_angle(VSub(p0, line.c),
                                            VSub(Arc_p1(line), line.c)))],
     last |-> Line_set_p1(last, p0),
     how |-> JoinKind(c)]

Arc_join_line_2(arc, line, last, pss, c) ==
    Arc_join_line_3(arc, line, last, c,
                    JoinPoint(c, Line_lerp(last, pss.t), last.v,
                              RLt(Q(1), pss.t)))

Arc_join_line_1(arc, line, last, pss) ==
    IF pss.exc # "none" THEN Raised(pss.exc, last)
    ELSE Arc_join_line_2(arc, line, last, pss,
                         RSub(line.r2, RMul(pss.d, pss.d)))

\* Arc.make_offset, last is a Line
Arc_join_line(arc, line, last) ==
    Arc_join_line_1(arc, line, last, Line_point_sur_segment(last, line.c))

\* the angles of both arcs from the join point p0
Arc_join_arc_6(line, last, p0, v, w) ==
    [exc |-> "none",
     at |-> p0,
     ret |-> [line EXCEPT !.a0 = atan2(v[2], v[1]),
                          !.da = signed_angle(v, w)],
     last |-> [last EXCEPT
                 !.da = signed_angle(VSub(Arc_p0(last), last.c), v)],
     how |-> "joined"]

Arc_join_arc_5(line, last, p0) ==
    Arc_join_arc_6(line, last, p0, VSub(p0, last.c),
                   VSub(Arc_p1(line), line.c))

\* the side rule: d of self.p0, d1 of the first candidate
Arc_join_arc_4(line, last, d, d1, v2, rv) ==
    Arc_join_arc_5(line, last,
                   IF (IF RLt(Q(0), d1) THEN RLt(d, Q(0)) ELSE RLt(Q(0), d))
                   THEN VSub(v2, rv) ELSE VAdd(v2, rv))

Arc_join_arc_3(line, last, tmp, d, dc, dist, a, hh) ==
    IF RLt(hh, Q(0)) THEN Raised("ValueError", last)
    ELSE Arc_join_arc_4(
             line, last, d,
             Line_point_sur_segment(
                 tmp,
                 VAdd(VAdd(last.c, VScale(dc, RDiv(a, dist))),
                      VScale(<<RNeg(dc[2]), dc[1]>>,
                             RDiv(RSqrt(hh), dist)))).d,
             VAdd(last.c, VScale(dc, RDiv(a, dist))),
             VScale(<<RNeg(dc[2]), dc[1]>>, RDiv(RSqrt(hh), dist)))

Arc_join_arc_2b(line, last, tmp, d, dc, dist, a) ==
    Arc_join_arc_3(line, last, tmp, d, dc, dist, a,
                   RSub(last.r2, RMul(a, a)))

Arc_join_arc_2(arc, line, last, tmp, pss, dc, r, dist) ==
    IF pss.exc # "none" THEN Raised(pss.exc, last)
    ELSE IF RLt(r, dist) \/ RLt(dist, RAbs(RSub(last.r, arc.r)))
    THEN Unjoined(line, last)
    ELSE IF dist = r
    THEN Arc_join_arc_5(line, last,
                        VAdd(VScale(VScale(dc, RNeg(last.r)), RDiv(Q(1), r)),
                             arc.c))
    ELSE Arc_join_arc_2b(line, last, tmp, pss.d, dc, dist,
                         RDiv(RAdd(RSub(last.r2, line.r2), RMul(dist, dist)),
                              RMul(Q(2), dist)))

Arc_join_arc_1(arc, line, last, dc) ==
    Arc_join_arc_2(arc, line, last, Line(last.c, dc),
                   Line_point_sur_segment(Line(last.c, dc), Arc_p0(arc)),
                   dc, RAdd(line.r, last.r), VLength(dc))

\* Arc.make_offset, last is an Arc (circle / circle)
Arc_join_arc(arc, line, last) ==
    Arc_join_arc_1(arc, line, last, VSub(line.c, last.c))

Arc_make_offset_1(arc, line, last) ==
    IF last.kind = "None" THEN Unjoined(line, last)
    ELSE IF last.kind = "Line" THEN Arc_join_line(arc, line, last)
    ELSE Arc_join_arc(arc, line, last)

\* Arc.make_offset: [exc, ret, last, how]
Arc_make_offset(arc, offset, last) ==
    Arc_make_offset_1(arc, Arc_offset(arc, offset), last)

(* ------------------------------- state -------------------------------- *)
VARIABLES
    self,     \* the receiver: a Line, an Arc or a Circle
    last,     \* the previous offset segment of the join pass, or None
    ret,      \* what the last call returned
    exc,      \* "none", or the exception the last call ended in
    op,       \* the last call
    arg,      \* its arguments
    how,      \* make_offset: "unjoined", "fallback", "joined" or "raised"
    old,      \* self and last as they were before the last call
    want,     \* <<p0, p1>>: the end points constructed or last assigned
    offset,   \* the distance of the join pass
    at,       \* the join point p0 an arc/arc make_offset selected, or None
    prior,    \* the offset segment before last in the chain, or None
    n         \* calls made on self (setters), segments walked (join pass)

vars == <<self, last, ret, exc, op, arg, how, old, want, offset, at, prior, n>>

EndPoints(s) ==
    IF s.kind = "Line" THEN <<Line_p0(s), Line_p1(s)>>
    ELSE IF s.kind = "Arc" THEN <<Arc_p0(s), Arc_p1(s)>>
    ELSE <<>>

Fresh(s, d) ==
    /\ self = s
    /\ offset = d
    /\ at = None
    /\ prior = None
    /\ last = None
    /\ ret = None
    /\ exc = "none"
    /\ op = "new"
    /\ arg = None
    /\ how = "none"
    /\ old = [self |-> s, last |-> None]
    /\ want = EndPoints(s)
    /\ n = 0

Called(name, a) ==
    /\ op' = name
    /\ arg' = a
    /\ old' = [self |-> self, last |-> last]

(* --------------------------- endpoint setters -------------------------- *)
SetPts ==
    {Vec(0, 0), Vec(1, 0), Vec(-1, 0), Vec(3, 0), Vec(-3, 0), Vec(1, 2),
     Vec(-1, 2)}

SetLines ==
    {Line(Vec(0, 0), Vec(1, 0)), Line(Vec(1, 0), Vec(0, 1)),
     Line(Vec(0, 0), Vec(0, 0)), LineFromPoints(Vec(-1, 2), Vec(3, 0))}

SetArcs ==
    {Arc(Vec(0, 0), Q(1), Quarter(0), Quarter(2)),
     Arc(Vec(0, 0), Q(1), Quarter(0), Quarter(-2)),
     Arc(Vec(0, 0), Q(1), Quarter(1), Quarter(2)),
     Arc(Vec(0, 0), Q(5), atan2(Q(4), Q(3)),
         ASub(atan2(Q(4), Q(-3)), atan2(Q(4), Q(3))))}

InitSet == \E s \in SetLines \cup SetArcs : Fresh(s, Q(0))

LineSetP0 ==
    /\ self.kind = "Line"
    /\ n < MaxSets
    /\ \E X \in SetPts :
        /\ self' = Line_set_p0(self, X)
        /\ want' = <<X, want[2]>>
        /\ Called("set_p0", X)
    /\ exc' = "none"
    /\ n' = n + 1
    /\ UNCHANGED <<last, ret, how, offset, at, prior>>

LineSetP1 ==
    /\ self.kind = "Line"
    /\ n < MaxSets
    /\ \E X \in SetPts :
        /\ self' = Line_set_p1(self, X)
        /\ want' = <<want[1], X>>
        /\ Called("set_p1", X)
    /\ exc' = "none"
    /\ n' = n + 1
    /\ UNCHANGED <<last, ret, how, offset, at, prior>>

ArcSet(name, X, r) ==
    /\ SegExact(r.arc)
    /\ self' = r.arc
    /\ exc' = r.exc
    /\ want' = IF r.exc # "none" THEN want
               ELSE IF name = "set_p0" THEN <<X, want[2]>>
               ELSE <<want[1], X>>
    /\ Called(name, X)

ArcSetP0 ==
    /\ self.kind = "Arc"
    /\ n < MaxSets
    /\ exc = "none"
    /\ \E X \in SetPts : ArcSet("set_p0", X, Arc_set_p0(self, X))
    /\ n' = n + 1
    /\ UNCHANGED <<last, ret, how, offset, at, prior>>

ArcSetP1 ==
    /\ self.kind = "Arc"
    /\ n < MaxSets
    /\ exc = "none"
    /\ \E X \in SetPts : ArcSet("set_p1", X, Arc_set_p1(self, X))
    /\ n' = n + 1
    /\ UNCHANGED <<last, ret, how, offset, at, prior>>

NextSet == LineSetP0 \/ LineSetP1 \/ ArcSetP0 \/ ArcSetP1

SpecSet == InitSet /\ [][NextSet]_vars

(* ------------------- intersect, projection, tangent ------------------- *)
\* largest radius Line.tangeant is called with
MaxRadius == 2

PureLines ==
    {Line(Vec(-10, 0), Vec(1, 0)), Line(Vec(-2, 1), Vec(2, 0)),
     Line(Vec(-2, 1), Vec(1, 0)), Line(Vec(3, 0), Vec(0, 0)),
     Line(Vec(-2, 7), Vec(1, 0)), Line(Vec(0, 0), Vec(-1, 0)),
     Line(Vec(3, -10), Vec(0, 2)), Line(Vec(0, 5), Vec(4, 0)),
     Line(Vec(0, 0), Vec(3, 4)), Line(Vec(1, 0), Vec(0, 1))}

PureCircles == {Circle(Vec(0, 0), Q(5)), Circle(Vec(0, 0), Q(1))}

PurePts ==
    {Vec(0, 0), Vec(0, 1), Vec(0, -1), Vec(1, 1), Vec(2, -3), Vec(-10, 2),
     Vec(4, 3), Vec(-2, 1)}

Params == {Q(0), R(1, 2), Q(1)}

Sweeps == {Quarter(1), Quarter(-1), Quarter(0), Quarter(-3)}

InitPure == \E s \in PureLines \cup PureCircles : Fresh(s, Q(0))

Returned(r, e) ==
    /\ ret' = r
    /\ exc' = e
    /\ n' = n + 1
    /\ UNCHANGED <<self, last, how, want, offset, at, prior>>

IntersectExact(r) == r.exc # "none" \/ (VExact(r.p) /\ RExact(r.t))

CircleIntersect ==
    /\ self.kind = "Circle"
    /\ op = "new"
    /\ \E line \in PureLines :
         \E r \in {Circle_intersect(self, line)} :
            /\ IntersectExact(r)
            /\ Returned(r, r.exc)
            /\ Called("intersect", line)

PointSurSegment ==
    /\ self.kind = "Line"
    /\ op = "new"
    /\ \E pt \in PurePts :
         \E r \in {Line_point_sur_segment(self, pt)} :
            /\ RExact(r.d) /\ RExact(r.t)
            /\ Returned(r, r.exc)
            /\ Called("point_sur_segment", pt)

Tangeant ==
    /\ self.kind = "Line"
    /\ op = "new"
    /\ \E t \in Params, da \in Sweeps, radius \in 1..MaxRadius :
         \E r \in {Line_tangeant(self, t, da, Q(radius))} :
            /\ SegExact(r)
            /\ Returned(r, "none")
            /\ Called("tangeant", [t |-> t, da |-> da, radius |-> Q(radius)])

NextPure == CircleIntersect \/ PointSurSegment \/ Tangeant

SpecPure == InitPure /\ [][NextPure]_vars

(* ------------------------------ join pass ------------------------------ *)
Offsets == {Q(-1), Q(0), Q(1)}

JoinLines ==
    {Line(Vec(0, 0), Vec(1, 0)), Line(Vec(1, 0), Vec(0, 1)),
     Line(Vec(3, 5), Vec(0, -5)), Line(Vec(4, 0), Vec(0, -1)),
     Line(Vec(1, 3), Vec(0, -1)), Line(Vec(-5, -4), Vec(5, 0)),
     Line(Vec(0, 0), Vec(0, 0)), Line(Vec(0, 0), Vec(3, 4))}

JoinArcs ==
    {Arc(Vec(0, 0), Q(5), Quarter(0), Quarter(1)),
     Arc(Vec(0, 0), Q(5), Quarter(0), Quarter(-3)),
     Arc(Vec(0, 0), Q(4), Quarter(0), Quarter(1)),
     Arc(Vec(0, 0), Q(6), Quarter(1), Quarter(-2)),
     Arc(Vec(8, 0), Q(5), Quarter(2), Quarter(-1)),
     Arc(Vec(10, 0), Q(5), Quarter(2), Quarter(1)),
     Arc(Vec(20, 0), Q(5), Quarter(2), Quarter(1)),
     Arc(Vec(9, 0), Q(4), Quarter(2), Quarter(1))}

InitJoin == \E s \in JoinLines \cup JoinArcs, d \in Offsets : Fresh(s, d)

JoinExact(r) == r.exc # "none" \/ (SegExact(r.ret) /\ SegExact(r.last))

MadeOffset(r) ==
    /\ JoinExact(r)
    /\ ret' = r.ret
    /\ last' = r.last
    /\ exc' = r.exc
    /\ how' = r.how
    /\ at' = IF "at" \in DOMAIN r THEN r.at ELSE None
    /\ n' = n + 1
    /\ Called("make_offset", offset)
    /\ UNCHANGED <<self, want, offset, prior>>

LineMakeOffset ==
    /\ self.kind = "Line"
    /\ op \in {"new", "next"}
    /\ \E r \in {Line_make_offset(self, offset, last)} : MadeOffset(r)

ArcMakeOffset ==
    /\ self.kind = "Arc"
    /\ op \in {"new", "next"}
    /\ \E r \in {Arc_make_offset(self, offset, last)} : MadeOffset(r)

\* the caller of the pass: the segment just returned is the previous one of
\* the next segment of the chain
NextSegment ==
    /\ op = "make_offset"
    /\ exc = "none"
    /\ n < MaxSegs
    /\ \E s \in JoinLines \cup JoinArcs : self' = s
    /\ last' = ret
    /\ prior' = last
    /\ at' = None
    /\ ret' = None
    /\ how' = "none"
    /\ Called("next", None)
    /\ UNCHANGED <<exc, want, offset, n>>

NextJoin == LineMakeOffset \/ ArcMakeOffset \/ NextSegment

SpecJoin == InitJoin /\ [][NextJoin]_vars

(* ------------------------ claims on the setters ------------------------ *)
\* C3: a Line's p0 and p1 setters each move one end only: after any
\* sequence of assignments each end point is the value last assigned to it
\* (or the constructed one), the end the last assignment did not name is
\* where it was before, and p0 = lerp(0), p1 = lerp(1).
C3_LineSettersMoveOneEnd ==
    self.kind = "Line" =>
        /\ Line_p0(self) = want[1]
        /\ Line_p1(self) = want[2]
        /\ Line_lerp(self, Q(0)) = Line_p0(self)
        /\ Line_lerp(self, Q(1)) = Line_p1(self)
        /\ op = "set_p0" =>
              Line_p0(self) = arg /\ Line_p1(self) = Line_p1(old.self)
        /\ op = "set_p1" =>
              Line_p1(self) = arg /\ Line_p0(self) = Line_p0(old.self)

\* C3 witness: a second assignment, to p0, that moves it away from where
\* it was while the other end, assigned before, is not the constructed p1
C3_Witness ==
    /\ self.kind = "Line"
    /\ n = 2
    /\ op = "set_p0"
    /\ arg # Line_p0(old.self)
    /\ Line_p1(self) # Line_p1(Line(Vec(0, 0), Vec(1, 0)))
    /\ Line_p1(self) = want[2]
    /\ self.v # old.self.v

\* C4: an Arc's p0 and p1 setters keep da, keep the other end point and
\* reach the assigned point, for any arc with distinct end points.
C4_ArcSettersSimilarity ==
    (/\ self.kind = "Arc"
     /\ op \in {"set_p0", "set_p1"}
     /\ exc = "none"
     /\ Arc_p0(old.self) # Arc_p1(old.self)) =>
        /\ self.da = old.self.da
        /\ op = "set_p0" =>
              Arc_p0(self) = arg /\ Arc_p1(self) = Arc_p1(old.self)
        /\ op = "set_p1" =>
              Arc_p1(self) = arg /\ Arc_p0(self) = Arc_p0(old.self)

\* the chord of the arc before the call and the chord asked for are
\* parallel and point the same way: no rotation is needed
SameDirection(u, v) == Cross(u, v) = Q(0) /\ RLt(Q(0), Dot(u, v))

\* what the setters do achieve: the claim of C4 when the new chord has the
\* direction of the old one (a pure scaling)
C4_ScalingOnly ==
    (/\ self.kind = "Arc"
     /\ exc = "none"
     /\ Arc_p0(old.self) # Arc_p1(old.self)) =>
        /\ (op = "set_p0"
            /\ SameDirection(VSub(Arc_p0(old.self), Arc_p1(old.self)),
                             VSub(arg, Arc_p1(old.self)))) =>
              /\ Arc_p0(self) = arg
              /\ Arc_p1(self) = Arc_p1(old.self)
              /\ self.da = old.self.da
        /\ (op = "set_p1"
            /\ SameDirection(VSub(Arc_p1(old.self), Arc_p0(old.self)),
                             VSub(arg, Arc_p0(old.self)))) =>
              /\ Arc_p1(self) = arg
              /\ Arc_p0(self) = Arc_p0(old.self)
              /\ self.da = old.self.da

(* ----------- claims on intersect, projection and tangent --------------- *)
OnCircle(circ, X) == Dot(VSub(X, circ.c), VSub(X, circ.c)) = circ.r2

\* B * B - 4 * A * C of |p + t * v - c|^2 = r^2
Disc(circ, line) ==
    RSub(RMul(Q(4), RMul(Dot(VSub(line.p, circ.c), line.v),
                         Dot(VSub(line.p, circ.c), line.v))),
         RMul(RMul(Q(4), Dot(line.v, line.v)),
              RSub(Dot(VSub(line.p, circ.c), VSub(line.p, circ.c)), circ.r2)))

\* the parameter on l of the projection of X on l
ParamOn(l, X) == RDiv(Dot(VSub(X, l.p), l.v), Dot(l.v, l.v))

HalfSteps == {R(k, 2) : k \in -40..40}

\* C5: Circle.intersect(line), for a line of non-zero direction that meets
\* the circle, returns found with a parameter t whose point lerp(t) is on
\* the circle, the root of smaller |t| of two, the tangent point of a
\* tangent line; Circle((0,0), 5) and Line((-10,0), (1,0)) give (-5, 0).
C5_IntersectRoot ==
    (/\ op = "intersect"
     /\ Dot(arg.v, arg.v) # Q(0)
     /\ RLe(Q(0), Disc(self, arg))) =>
        /\ exc = "none"
        /\ ret.found
        /\ ret.p = Line_lerp(arg, ret.t)
        /\ OnCircle(self, ret.p)
        /\ \A t \in HalfSteps :
              OnCircle(self, Line_lerp(arg, t)) => RLe(RAbs(ret.t), RAbs(t))
        /\ (self = Circle(Vec(0, 0), Q(5))
            /\ arg = Line(Vec(-10, 0), Vec(1, 0))) => ret.p = Vec(-5, 0)

\* C6: Circle.intersect never raises on degenerate input: a line of
\* zero-length direction, or one that misses the circle, gives found = False
\* and the line's closest point to the centre.
C6_IntersectNeverRaises ==
    (/\ op = "intersect"
     /\ (Dot(arg.v, arg.v) = Q(0) \/ RLt(Disc(self, arg), Q(0)))) =>
        /\ exc = "none"
        /\ ~ret.found
        /\ ret.p = Line_lerp(arg, ret.t)
        /\ Dot(VSub(ret.p, self.c), arg.v) = Q(0)

\* C7: Line.point_sur_segment(pt) returns d > 0 exactly when pt is strictly
\* on the right-hand side of the line (the side cross_z points to), d < 0
\* exactly when it is on the left, and a flag that is true exactly when the
\* projection parameter is strictly between 0 and 1.
C7_SignedDistance ==
    (op = "point_sur_segment" /\ exc = "none") =>
        /\ RLt(Q(0), ret.d) <=> RLt(Q(0), Dot(VSub(arg, self.p), cross_z(self)))
        /\ RLt(ret.d, Q(0)) <=> RLt(Dot(VSub(arg, self.p), cross_z(self)), Q(0))
        /\ ret.res <=> (RLt(Q(0), ParamOn(self, arg))
                        /\ RLt(ParamOn(self, arg), Q(1)))

\* C8: Line.tangeant(t, da, radius) returns an arc that starts at lerp(t),
\* whose centre is at distance radius from that point, on the left of the
\* line when da >= 0 and on the right when da < 0, and whose sweep is da.
C8_TangentArc ==
    (op = "tangeant" /\ Dot(self.v, self.v) # Q(0)) =>
        /\ Arc_p0(ret) = Line_lerp(self, arg.t)
        /\ Dot(VSub(ret.c, Line_lerp(self, arg.t)),
               VSub(ret.c, Line_lerp(self, arg.t)))
             = RMul(arg.radius, arg.radius)
        /\ ASign(arg.da) >= 0 =>
              RLt(Dot(VSub(ret.c, Line_lerp(self, arg.t)), cross_z(self)), Q(0))
        /\ ASign(arg.da) < 0 =>
              RLt(Q(0), Dot(VSub(ret.c, Line_lerp(self, arg.t)), cross_z(self)))
        /\ ret.da = arg.da

\* what Line.tangeant does achieve: the claim of C8 for da >= 0
C8_TangentArcCcw ==
    (op = "tangeant" /\ Dot(self.v, self.v) # Q(0) /\ ASign(arg.da) >= 0) =>
        /\ Arc_p0(ret) = Line_lerp(self, arg.t)
        /\ RLt(Dot(VSub(ret.c, Line_lerp(self, arg.t)), cross_z(self)), Q(0))
        /\ ret.da = arg.da

(* ----------------------- claims on the join pass ----------------------- *)
Joining(a, b) ==
    /\ op = "make_offset"
    /\ self.kind = a
    /\ old.last.kind = b

\* C1: after a successful (joined, not fallback, not rejected) make_offset
\* in the line/line, line/arc and arc/line cases, the end point of the
\* previous offset segment is the start point of the returned one.
C1_JoinCorrectness ==
    (/\ exc = "none"
     /\ how = "joined"
     /\ Joining("Line", "Line") \/ Joining("Line", "Arc")
        \/ Joining("Arc", "Line")) =>
        EndPoints(last)[2] = EndPoints(ret)[1]

\* the two cases of C1 that do hold: line/line and arc/line
C1_JoinCorrectnessAfterLine ==
    (/\ exc = "none"
     /\ how = "joined"
     /\ Joining("Line", "Line") \/ Joining("Arc", "Line")) =>
        EndPoints(last)[2] = EndPoints(ret)[1]

LineA == Line(Vec(0, 0), Vec(1, 0))
LineB == Line(Vec(1, 0), Vec(0, 1))

\* prev = A.make_offset(1) has been made and cur = B.make_offset(1, prev)
\* has just returned
LCorner ==
    /\ Joining("Line", "Line")
    /\ self = LineB
    /\ offset = Q(1)
    /\ old.last = Line_make_offset(LineA, Q(1), None).ret

\* C2 as stated: the L-corner A = Line((0,0), (1,0)), B = Line((1,0), (0,1)),
\* each offset by 1 and joined, gives prev.p1 = cur.p0 = (1, 1).
C2_LCornerAsStated ==
    LCorner => Line_p1(last) = Vec(1, 1) /\ Line_p0(ret) = Vec(1, 1)

\* C2 amended: the two offset lines meet at (2, -1), the corner of the
\* right-hand offsets y = -1 and x = 2.
C2_LCorner ==
    LCorner =>
        /\ exc = "none"
        /\ Line_p1(last) = Vec(2, -1)
        /\ Line_p0(ret) = Vec(2, -1)

C2_Witness == LCorner /\ how = "joined" /\ Line_p1(last) = Line_p0(ret)

\* the new offset line of a Line.make_offset call
NewLine == Line_offset(self, offset)

Parallel(a, b) == Cross(a.v, b.v) = Q(0)

\* the point where the infinite lines a and b cross
Meet(a, b) ==
    Line_lerp(a, RDiv(Cross(VSub(b.p, a.p), b.v), Cross(a.v, b.v)))

Rejected == ret = NewLine /\ last = old.last

JoinedAt(X) == Line_p1(last) = X /\ Line_p0(ret) = X

\* C9 as stated: a line/line make_offset rejects the join when the lines
\* are parallel, when the intersection is beyond the previous segment's end
\* (parameter > 1 on previous) or before the new segment's start
\* (parameter < 0 on the new line), and joins at the intersection otherwise.
C9_RejectAsStated ==
    Joining("Line", "Line") =>
        IF \/ Parallel(old.last, NewLine)
           \/ RLt(Q(1), ParamOn(old.last, Meet(old.last, NewLine)))
           \/ RLt(ParamOn(NewLine, Meet(old.last, NewLine)), Q(0))
        THEN Rejected
        ELSE JoinedAt(Meet(old.last, NewLine))

\* C9 amended: the join is rejected when the lines are parallel, when the
\* intersection is beyond the end of the new offset line (parameter > 1 on
\* the new line) or before the start of the previous segment (parameter < 0
\* on previous); otherwise previous.p1 and the returned line's p0 are the
\* intersection point.
C9_Reject ==
    Joining("Line", "Line") =>
        /\ exc = "none"
        /\ IF \/ Parallel(old.last, NewLine)
              \/ RLt(Q(1), ParamOn(NewLine, Meet(old.last, NewLine)))
              \/ RLt(ParamOn(old.last, Meet(old.last, NewLine)), Q(0))
           THEN Rejected
           ELSE JoinedAt(Meet(old.last, NewLine))

\* C9 witness: a join made although the intersection is beyond the end of
\* the previous segment
C9_Witness ==
    /\ Joining("Line", "Line")
    /\ ~Parallel(old.last, NewLine)
    /\ RLt(Q(1), ParamOn(old.last, Meet(old.last, NewLine)))
    /\ how = "joined"
    /\ JoinedAt(Meet(old.last, NewLine))
    /\ last # old.last

\* rejections of each kind happen too
C9_RejectedBeyondNewEnd ==
    /\ Joining("Line", "Line")
    /\ ~Parallel(old.last, NewLine)
    /\ RLt(Q(1), ParamOn(NewLine, Meet(old.last, NewLine)))
    /\ Rejected

C9_RejectedBeforePreviousStart ==
    /\ Joining("Line", "Line")
    /\ ~Parallel(old.last, NewLine)
    /\ RLt(ParamOn(old.last, Meet(old.last, NewLine)), Q(0))
    /\ Rejected

\* a sweep of the same winding: counter-clockwise within (0, 2 * pi),
\* clockwise below 0
SameWinding(before, after) ==
    IF ASign(before) = 1
    THEN ASign(after) = 1 /\ ASign(ASub(Quarter(4), after)) = 1
    ELSE ASign(after) = -1

\* the arc/line joins whose recomputed sweep is neither the zero angle nor a
\* half turn: the join point is not on the line through the centre and the
\* end the arc keeps
LineArcJoin ==
    /\ Joining("Line", "Arc")
    /\ Cross(VSub(Arc_p0(old.last), old.last.c),
             VSub(Line_p0(ret), old.last.c)) # Q(0)

ArcLineJoin ==
    /\ Joining("Arc", "Line")
    /\ Cross(VSub(Line_p1(last), self.c),
             VSub(Arc_p1(Arc_offset(self, offset)), self.c)) # Q(0)

\* C10: the sweep recomputed by an arc/line join has the sign of the arc's
\* sweep before the join: previous.da in Line.make_offset with an Arc
\* previous, the new arc's da in Arc.make_offset with a Line previous; a
\* counter-clockwise arc stays within (0, 2 * pi), a clockwise one below 0.
C10_WindingPreserved ==
    (op = "make_offset" /\ exc = "none") =>
        /\ LineArcJoin => SameWinding(old.last.da, last.da)
        /\ ArcLineJoin => SameWinding(self.da, ret.da)

\* what the correction does achieve: a counter-clockwise arc stays
\* counter-clockwise
C10_CcwPreserved ==
    (op = "make_offset" /\ exc = "none") =>
        /\ (LineArcJoin /\ ccw(old.last)) => SameWinding(old.last.da, last.da)
        /\ (ArcLineJoin /\ ccw(self)) => SameWinding(self.da, ret.da)

(* ------------------------ claims on arc/arc joins ---------------------- *)
\* the new offset arc of an Arc.make_offset call
NewArc == Arc_offset(self, offset)

\* the squared distance between the centres of previous and the new arc
Dist2 == Dot(VSub(NewArc.c, old.last.c), VSub(NewArc.c, old.last.c))

Square(x) == RMul(x, x)

\* dist > r_new + r_prev or dist < |r_prev - r_new|
Apart ==
    \/ RLt(Square(RAdd(NewArc.r, old.last.r)), Dist2)
    \/ RLt(Dist2, Square(RSub(old.last.r, NewArc.r)))

\* C11: Arc.make_offset(d, previous) with an Arc previous whose circle does
\* not intersect the new offset circle (dist > r_new + r_prev or
\* dist < |r_prev - r_new|, concentric centres included) does not raise,
\* returns the unjoined offset arc and leaves previous unchanged.
C11_SkipsWithoutRaising ==
    (Joining("Arc", "Arc") /\ Apart) =>
        /\ exc = "none"
        /\ ret = NewArc
        /\ last = old.last

\* what the branch does achieve: circles too far apart are skipped
C11_SkipsWhenFarApart ==
    (/\ Joining("Arc", "Arc")
     /\ RLt(Square(RAdd(NewArc.r, old.last.r)), Dist2)) =>
        /\ exc = "none"
        /\ ret = NewArc
        /\ last = old.last

\* C12: in the arc/arc branch of Arc.make_offset, when the two circles
\* intersect (externally tangent or in two points), the join point selected
\* is on both circles: at distance previous.r of previous.c and at the offset
\* arc's radius of the offset arc's centre.
C12_JoinPointOnBothCircles ==
    (Joining("Arc", "Arc") /\ exc = "none" /\ how = "joined") =>
        /\ Dot(VSub(at, old.last.c), VSub(at, old.last.c)) = old.last.r2
        /\ Dot(VSub(at, NewArc.c), VSub(at, NewArc.c)) = NewArc.r2

\* what the branch does achieve: the point is on both circles in the
\* two-solution case, and in the tangent case when the radii are equal
C12_OnBothCirclesUnlessTangent ==
    (/\ Joining("Arc", "Arc") /\ exc = "none" /\ how = "joined"
     /\ \/ Dist2 # Square(RAdd(NewArc.r, old.last.r))
        \/ NewArc.r = old.last.r) =>
        /\ Dot(VSub(at, old.last.c), VSub(at, old.last.c)) = old.last.r2
        /\ Dot(VSub(at, NewArc.c), VSub(at, NewArc.c)) = NewArc.r2

(* ------------------- claims on the frame of the pass ------------------- *)
\* C13: seg.make_offset(d, previous), in all four pairings, never changes
\* the start point previous.p0 and never mutates the receiver seg; hence a
\* joint made between the offset segments i-1 and i (prior.p1 = last.p0)
\* still holds after the join of the segments i and i+1.
C13_JoinFrame ==
    op = "make_offset" =>
        /\ self = old.self
        /\ old.last.kind # "None" =>
              EndPoints(last)[1] = EndPoints(old.last)[1]
        /\ (prior.kind # "None"
            /\ EndPoints(prior)[2] = EndPoints(old.last)[1]) =>
              EndPoints(prior)[2] = EndPoints(last)[1]

\* C13 witness: a joint was made between prior and last, and the join of
\* the next segment then moved the end of last
C13_Witness ==
    /\ op = "make_offset"
    /\ how = "joined"
    /\ prior.kind # "None"
    /\ EndPoints(prior)[1] # EndPoints(prior)[2]
    /\ last # old.last
    /\ EndPoints(last)[2] # EndPoints(old.last)[2]
    /\ EndPoints(prior)[2] = EndPoints(old.last)[1]
    /\ EndPoints(prior)[2] = EndPoints(last)[1]

\* the same with an Arc as the segment whose end the later join moved
C13_WitnessArc ==
    /\ Joining("Line", "Arc") \/ Joining("Arc", "Arc")
    /\ prior.kind # "None"
    /\ last.da # old.last.da
    /\ EndPoints(prior)[2] = EndPoints(last)[1]

====
